---------------------------- MODULE Spec2Model ----------------------------
(***************************************************************************)
(* ccnudge: per-event notification hooks kept in the host application's   *)
(* settings.json, with a single-generation backup file used to toggle     *)
(* them off and on again (lib/setup.js, bin/cli.js), and the package's    *)
(* uninstall script, which cleans both files up.                           *)
(*                                                                         *)
(* The state is the two files.  A file is [st, doc]: st is "absent",      *)
(* "invalid" (present but not parsable JSON) or "ok"; doc is the parsed   *)
(* JSON object, a function from key names to values (EmptyObject unless   *)
(* st = "ok").  Every operation is one atomic step: the program is        *)
(* single-threaded and each call runs to completion.                      *)
(***************************************************************************)
EXTENDS Naturals, Sequences, FiniteSets, TLC

VARIABLES
    settings,   \* ~/.claude/settings.json
    backup,     \* ~/.claude/.ccnudge-backup.json
    last,       \* the last call: [op, event, result, pre], pre the files before it;
                \* a setup has its other arguments in input, a status what it
                \* printed in report
    anchor,     \* the managed hooks as they were when the current run of
                \* enable/disable calls began
    proc        \* the invocations under way where the file accesses of two
                \* invocations interleave: for each, the operation, the file
                \* access it is at and what it has read

vars == <<settings, backup, last, anchor, proc>>

----------------------------------------------------------------------------
(* JSON objects and JavaScript object operations *)

EmptyObject == <<>>

\* obj[k] is set (settings.hooks[event] = v)
Put(obj, k, v) == [x \in (DOMAIN obj) \cup {k} |-> IF x = k THEN v ELSE obj[x]]

\* delete obj[k]
Delete(obj, k) == [x \in (DOMAIN obj) \ {k} |-> obj[x]]

\* Object.assign as it would be if a key of the target kept its value
ObjectAssign_TargetWins(target, source) ==
    [x \in (DOMAIN target) \cup (DOMAIN source) |->
        IF x \in DOMAIN target THEN target[x] ELSE source[x]]

\* Object.assign(target, source)
ObjectAssign(target, source) ==
    [x \in (DOMAIN target) \cup (DOMAIN source) |->
        IF x \in DOMAIN source THEN source[x] ELSE target[x]]

\* obj restricted to the keys in ks
Restrict(obj, ks) == [x \in (DOMAIN obj) \cap ks |-> obj[x]]

AbsentFile == [st |-> "absent", doc |-> EmptyObject]
InvalidFile == [st |-> "invalid", doc |-> EmptyObject]
OkFile(doc) == [st |-> "ok", doc |-> doc]

----------------------------------------------------------------------------
(* Constants of the program *)

AVAILABLE_EVENTS ==
    << "Stop", "SubagentStop", "PostToolUse", "PreToolUse", "UserPromptSubmit",
       "Notification", "SessionStart", "SessionEnd", "PreCompact" >>

\* AVAILABLE_EVENTS.map(e => e.value)
eventNames == { AVAILABLE_EVENTS[i] : i \in 1..Len(AVAILABLE_EVENTS) }

PLATFORM_CONFIGS ==
    [ darwin |-> [ command |-> "afplay",
                   defaultSound |-> "/System/Library/Sounds/Glass.aiff",
                   soundsPath |-> "/System/Library/Sounds",
                   extension |-> ".aiff",
                   commandSuffix |-> "" ],
      linux  |-> [ command |-> "paplay",
                   defaultSound |-> "/usr/share/sounds/freedesktop/stereo/complete.oga",
                   soundsPath |-> "/usr/share/sounds",
                   extension |-> ".oga",
                   commandSuffix |-> "" ],
      win32  |-> [ command |-> "powershell -c (New-Object Media.SoundPlayer",
                   defaultSound |-> "C:\\Windows\\Media\\Windows Notify System Generic.wav",
                   soundsPath |-> "C:\\Windows\\Media",
                   extension |-> ".wav",
                   commandSuffix |-> ").PlaySync()" ] ]

\* os.platform() of the machine the model runs the program on
Platform == "linux"

\* process.cwd()
Cwd == "/home/user"

getPlatformConfig == PLATFORM_CONFIGS[Platform]

----------------------------------------------------------------------------
(* Bounds of the model *)

\* how many of the managed events (taken from the front of AVAILABLE_EVENTS)
\* occur in the documents and arguments of the model
NumEvents == 2

ModelledEvents == { AVAILABLE_EVENTS[i] : i \in 1..NumEvents }

\* a hook event of the host application that is not in AVAILABLE_EVENTS
UnmanagedEvents == { "Custom" }

\* a falsy argument: null, undefined or the empty string
NoEvent == ""
NoSound == ""

\* what the start, stop and remove commands pass as the event: the CLI
\* forwards the value of -e unvalidated
EventArgs == ModelledEvents \cup UnmanagedEvents

\* what the setup command passes as the event: the events ticked in its
\* checkbox of getAvailableEvents()
SetupEvents == ModelledEvents

\* the sound arguments tried: none (the platform default) and a bare name
SoundArgs == { NoSound, "Ping" }

\* the environment of a call: whether the write of the settings file fails
IoCases == BOOLEAN

\* how many invocations of the program run at once
NumProcs == 2

Procs == 1..NumProcs

\* sound files of the user's own, as the "Custom path..." answer of the setup
\* command names them: a .wav file, and a file whose extension getStatus does
\* not know
CustomSounds == { "/home/user/ding.wav", "/home/user/chime.ogg" }

\* the sound arguments of a setup followed by a look at the status: none, the
\* name of a system sound, and the custom paths
RoundTripSounds == { NoSound, "bell" } \cup CustomSounds

----------------------------------------------------------------------------
(* Paths and the filesystem probe *)

\* path.isAbsolute on a POSIX platform
isAbsolute(p) == Len(p) > 0 /\ SubSeq(p, 1, 1) = "/"

\* path.join(dir, name) on a POSIX platform
pathJoin(dir, name) == dir \o "/" \o name

\* path.resolve(p) for a relative p
pathResolve(p) == pathJoin(Cwd, p)

systemSoundPath(name) ==
    pathJoin(getPlatformConfig.soundsPath, name \o getPlatformConfig.extension)

\* the sets of sound files that may exist when Setup probes the filesystem:
\* here the platform default exists and no file is named Ping
FsScenarios == { { getPlatformConfig.defaultSound } }

\* the sound files that exist where every sound of RoundTripSounds resolves
RoundTripFs ==
    { getPlatformConfig.defaultSound, systemSoundPath("bell") } \cup CustomSounds

NotFound == "<not found>"

\* setupNotification's resolution of its soundPath argument against the files
\* in existing: the resolved absolute path, or NotFound where it throws
resolveSound(soundPath, existing) ==
    LET config == getPlatformConfig
        cand == IF soundPath = NoSound THEN config.defaultSound
                ELSE IF ~isAbsolute(soundPath)
                     THEN IF systemSoundPath(soundPath) \in existing
                          THEN systemSoundPath(soundPath)
                          ELSE IF pathResolve(soundPath) \in existing
                               THEN pathResolve(soundPath)
                               ELSE NotFound
                     ELSE soundPath
    IN  IF cand \in existing THEN cand ELSE NotFound

----------------------------------------------------------------------------
(* HookBuilder *)

buildSoundCommand(soundPath) ==
    LET config == getPlatformConfig
    IN  IF Platform = "win32"
        THEN config.command \o " '" \o soundPath \o "'" \o config.commandSuffix
        ELSE config.command \o " " \o soundPath

buildDesktopNotifyCommand ==
    IF Platform = "darwin"
    THEN "osascript -e 'display notification \"Claude Code has finished\" with title \"CCNudge\" sound name \"\"'"
    ELSE IF Platform = "linux"
         THEN "notify-send \"CCNudge\" \"Claude Code has finished\""
         ELSE "powershell -c \"New-BurntToastNotification -Text 'CCNudge', 'Claude Code has finished'\""

\* buildHooks as it would be if it pushed the desktop notification first
buildHooks_NotifyFirst(soundPath, enableDesktopNotify) ==
    LET soundHook == [type |-> "command", command |-> buildSoundCommand(soundPath)]
        notifyHook == [type |-> "command", command |-> buildDesktopNotifyCommand]
    IN  IF enableDesktopNotify THEN <<notifyHook, soundHook>> ELSE <<soundHook>>

\* the hooks array setupNotification builds
buildHooks(soundPath, enableDesktopNotify) ==
    LET soundHook == [type |-> "command", command |-> buildSoundCommand(soundPath)]
        notifyHook == [type |-> "command", command |-> buildDesktopNotifyCommand]
    IN  IF enableDesktopNotify THEN <<soundHook, notifyHook>> ELSE <<soundHook>>

\* the value stored at settings.hooks[event]
hookGroups(hooks) == << [hooks |-> hooks] >>

\* a hook configuration written by hand or by the host application
HandAuthored == hookGroups(<< [type |-> "command", command |-> "echo done"] >>)

\* the hooks an earlier run of the tool configured: the default sound, no
\* desktop notification
EarlierSetup == hookGroups(buildHooks(getPlatformConfig.defaultSound, FALSE))


----------------------------------------------------------------------------
(* SettingsStore and BackupStore *)

hasHooks(doc) == "hooks" \in DOMAIN doc

\* settings.hooks, for the reads that tolerate its absence
hooksOf(doc) == IF hasHooks(doc) THEN doc["hooks"] ELSE EmptyObject

\* readSettings as it would be if malformed JSON read as {} too
readSettings_InvalidAsEmpty(file) ==
    [ threw |-> FALSE,
      doc   |-> IF file.st = "ok" THEN file.doc ELSE EmptyObject ]

\* readSettings: a missing file reads as {}, malformed JSON throws
readSettings(file) ==
    [ threw |-> file.st = "invalid",
      doc   |-> IF file.st = "ok" THEN file.doc ELSE EmptyObject ]

\* writeSettings as it would be if it serialised settings.hooks alone
writeSettings_HooksOnly(file, doc, ioFails) ==
    [ threw |-> ioFails,
      file  |-> IF ioFails THEN file ELSE OkFile(Restrict(doc, {"hooks"})) ]

\* writeSettings(doc) over the file as it is: when mkdir or writeFile rejects
\* (ioFails) the call throws and the file is as it was
writeSettings(file, doc, ioFails) ==
    [ threw |-> ioFails,
      file  |-> IF ioFails THEN file ELSE OkFile(doc) ]

\* getBackupConfig as it would be if a backup that does not parse read as {}
getBackupConfig_InvalidAsEmpty(bfile) ==
    [ isNull |-> bfile.st = "absent",
      doc    |-> IF bfile.st = "ok" THEN bfile.doc ELSE EmptyObject ]

\* getBackupConfig: the parsed backup, or null when absent or unparsable
getBackupConfig(bfile) ==
    [ isNull |-> bfile.st # "ok",
      doc    |-> IF bfile.st = "ok" THEN bfile.doc ELSE EmptyObject ]

\* configuredEvents as it would be if it were not filtered by eventNames
configuredEventsOf_AnyEvent(doc) == DOMAIN hooksOf(doc)

\* the managed events with an entry in the hooks of doc
configuredEventsOf(doc) == { e \in eventNames : e \in DOMAIN hooksOf(doc) }

\* backupCurrentConfig as it would be if it kept a backup that already exists
backupCurrentConfig_KeepExisting(sfile, bfile) ==
    LET rd == readSettings(sfile)
        ccnudgeHooks == Restrict(hooksOf(rd.doc), eventNames)
        written == hasHooks(rd.doc) /\ DOMAIN ccnudgeHooks # {} /\ bfile.st # "ok"
    IN  [ threw   |-> rd.threw,
          written |-> ~rd.threw /\ written,
          backup  |-> IF ~rd.threw /\ written THEN OkFile(ccnudgeHooks) ELSE bfile ]

\* backupCurrentConfig as it would be if it wrote the backup without looking
\* whether it holds an event
backupCurrentConfig_WritesEmpty(sfile, bfile) ==
    LET rd == readSettings(sfile)
        ccnudgeHooks == Restrict(hooksOf(rd.doc), eventNames)
        written == hasHooks(rd.doc)
    IN  [ threw   |-> rd.threw,
          written |-> ~rd.threw /\ written,
          backup  |-> IF ~rd.threw /\ written THEN OkFile(ccnudgeHooks) ELSE bfile ]

\* backupCurrentConfig as it would be if it added the managed hooks to the
\* backup that already exists
backupCurrentConfig_MergeExisting(sfile, bfile) ==
    LET rd == readSettings(sfile)
        ccnudgeHooks == Restrict(hooksOf(rd.doc), eventNames)
        written == hasHooks(rd.doc) /\ DOMAIN ccnudgeHooks # {}
    IN  [ threw   |-> rd.threw,
          written |-> ~rd.threw /\ written,
          backup  |-> IF ~rd.threw /\ written
                      THEN OkFile(ObjectAssign(getBackupConfig(bfile).doc, ccnudgeHooks))
                      ELSE bfile ]

\* backupCurrentConfig: re-reads the settings and, when a managed event is
\* present, overwrites the backup file with the managed hooks
backupCurrentConfig(sfile, bfile) ==
    LET rd == readSettings(sfile)
        ccnudgeHooks == Restrict(hooksOf(rd.doc), eventNames)
        written == hasHooks(rd.doc) /\ DOMAIN ccnudgeHooks # {}
    IN  [ threw   |-> rd.threw,
          written |-> ~rd.threw /\ written,
          backup  |-> IF ~rd.threw /\ written THEN OkFile(ccnudgeHooks) ELSE bfile ]

\* fs.unlink(backupPath) with its error swallowed
unlinkBackup(bfile) == AbsentFile

----------------------------------------------------------------------------
(* ConfigManager: each operation maps the two files to the files it leaves *)
(* and its outcome: "ok" (the change was written), "noop" and "notfound"   *)
(* (a reported outcome and an early return) or the error thrown.           *)

Outcome(sfile, bfile, result) ==
    [settings |-> sfile, backup |-> bfile, result |-> result]

Errors == { "ParseError", "SoundNotFoundError", "IoError" }

\* doc with settings.hooks initialised to {} when it is missing
ensureHooks(doc) == IF hasHooks(doc) THEN doc ELSE Put(doc, "hooks", EmptyObject)

\* doc after "Clean up empty hooks object"
cleanupEmptyHooks(doc) ==
    IF hasHooks(doc) /\ DOMAIN doc["hooks"] = {} THEN Delete(doc, "hooks") ELSE doc

\* setupNotification as it would be without its call of backupCurrentConfig
setupNotification_NoBackup(sfile, bfile, event, soundPath, enableDesktopNotify, existing, ioFails) ==
    LET rd == readSettings(sfile)
        resolved == resolveSound(soundPath, existing)
        doc == ensureHooks(rd.doc)
        hooks == buildHooks(resolved, enableDesktopNotify)
        newDoc == Put(doc, "hooks", Put(doc["hooks"], event, hookGroups(hooks)))
        wr == writeSettings(sfile, newDoc, ioFails)
    IN  IF resolved = NotFound THEN Outcome(sfile, bfile, "SoundNotFoundError")
        ELSE IF rd.threw THEN Outcome(sfile, bfile, "ParseError")
        ELSE IF wr.threw THEN Outcome(wr.file, bfile, "IoError")
        ELSE Outcome(wr.file, bfile, "ok")

\* setupNotification as it would be if it added its hook group to the groups
\* the event already has
setupNotification_Merge(sfile, bfile, event, soundPath, enableDesktopNotify, existing, ioFails) ==
    LET bk == backupCurrentConfig(sfile, bfile)
        resolved == resolveSound(soundPath, existing)
        doc == ensureHooks(readSettings(sfile).doc)
        hooks == buildHooks(resolved, enableDesktopNotify)
        groups == IF event \in DOMAIN doc["hooks"]
                  THEN doc["hooks"][event] \o hookGroups(hooks)
                  ELSE hookGroups(hooks)
        newDoc == Put(doc, "hooks", Put(doc["hooks"], event, groups))
        wr == writeSettings(sfile, newDoc, ioFails)
    IN  IF bk.threw THEN Outcome(sfile, bfile, "ParseError")
        ELSE IF resolved = NotFound THEN Outcome(sfile, bk.backup, "SoundNotFoundError")
        ELSE IF wr.threw THEN Outcome(wr.file, bk.backup, "IoError")
        ELSE Outcome(wr.file, bk.backup, "ok")

setupNotification(sfile, bfile, event, soundPath, enableDesktopNotify, existing, ioFails) ==
    LET bk == backupCurrentConfig(sfile, bfile)
        resolved == resolveSound(soundPath, existing)
        doc == ensureHooks(readSettings(sfile).doc)
        hooks == buildHooks(resolved, enableDesktopNotify)
        newDoc == Put(doc, "hooks", Put(doc["hooks"], event, hookGroups(hooks)))
        wr == writeSettings(sfile, newDoc, ioFails)
    IN  IF bk.threw THEN Outcome(sfile, bfile, "ParseError")
        ELSE IF resolved = NotFound THEN Outcome(sfile, bk.backup, "SoundNotFoundError")
        ELSE IF wr.threw THEN Outcome(wr.file, bk.backup, "IoError")
        ELSE Outcome(wr.file, bk.backup, "ok")

enableNotifications(sfile, bfile, event, ioFails) ==
    LET bk == getBackupConfig(bfile)
        rd == readSettings(sfile)
        doc == ensureHooks(rd.doc)
        newDoc == IF event # NoEvent
                  THEN Put(doc, "hooks", Put(doc["hooks"], event, bk.doc[event]))
                  ELSE Put(doc, "hooks", ObjectAssign(doc["hooks"], bk.doc))
        wr == writeSettings(sfile, newDoc, ioFails)
    IN  IF bk.isNull THEN Outcome(sfile, bfile, "noop")
        ELSE IF rd.threw THEN Outcome(sfile, bfile, "ParseError")
        ELSE IF event # NoEvent /\ event \notin DOMAIN bk.doc
             THEN Outcome(sfile, bfile, "notfound")
        ELSE IF wr.threw THEN Outcome(wr.file, bfile, "IoError")
        ELSE Outcome(wr.file, bfile, "ok")

\* disableNotifications as it would be if it wrote the snapshot of the managed
\* hooks, empty or not, before looking whether anything is configured
disableNotifications_SnapshotFirst(sfile, bfile, event, ioFails) ==
    LET rd == readSettings(sfile)
        configuredEvents == configuredEventsOf(rd.doc)
        snapshot == OkFile(Restrict(hooksOf(rd.doc), eventNames))
        removed == IF event # NoEvent
                   THEN Put(rd.doc, "hooks", Delete(rd.doc["hooks"], event))
                   ELSE Put(rd.doc, "hooks",
                            Restrict(rd.doc["hooks"], DOMAIN rd.doc["hooks"] \ configuredEvents))
        wr == writeSettings(sfile, cleanupEmptyHooks(removed), ioFails)
    IN  IF rd.threw THEN Outcome(sfile, bfile, "ParseError")
        ELSE IF configuredEvents = {} THEN Outcome(sfile, snapshot, "noop")
        ELSE IF event # NoEvent /\ event \notin DOMAIN hooksOf(rd.doc)
             THEN Outcome(sfile, snapshot, "notfound")
        ELSE IF wr.threw THEN Outcome(wr.file, snapshot, "IoError")
        ELSE Outcome(wr.file, snapshot, "ok")

\* disableNotifications as it would be if it took its snapshot after it
\* removed the hooks
disableNotifications_SnapshotAfter(sfile, bfile, event, ioFails) ==
    LET rd == readSettings(sfile)
        configuredEvents == configuredEventsOf(rd.doc)
        removed == IF event # NoEvent
                   THEN Put(rd.doc, "hooks", Delete(rd.doc["hooks"], event))
                   ELSE Put(rd.doc, "hooks",
                            Restrict(rd.doc["hooks"], DOMAIN rd.doc["hooks"] \ configuredEvents))
        bk == backupCurrentConfig(OkFile(removed), bfile)
        wr == writeSettings(sfile, cleanupEmptyHooks(removed), ioFails)
    IN  IF rd.threw THEN Outcome(sfile, bfile, "ParseError")
        ELSE IF configuredEvents = {} THEN Outcome(sfile, bfile, "noop")
        ELSE IF event # NoEvent /\ event \notin DOMAIN hooksOf(rd.doc)
             THEN Outcome(sfile, backupCurrentConfig(sfile, bfile).backup, "notfound")
        ELSE IF wr.threw THEN Outcome(wr.file, bk.backup, "IoError")
        ELSE Outcome(wr.file, bk.backup, "ok")

\* disableNotifications as it would be without its call of
\* backupCurrentConfig
disableNotifications_NoBackup(sfile, bfile, event, ioFails) ==
    LET rd == readSettings(sfile)
        configuredEvents == configuredEventsOf(rd.doc)
        removed == IF event # NoEvent
                   THEN Put(rd.doc, "hooks", Delete(rd.doc["hooks"], event))
                   ELSE Put(rd.doc, "hooks",
                            Restrict(rd.doc["hooks"], DOMAIN rd.doc["hooks"] \ configuredEvents))
        wr == writeSettings(sfile, cleanupEmptyHooks(removed), ioFails)
    IN  IF rd.threw THEN Outcome(sfile, bfile, "ParseError")
        ELSE IF configuredEvents = {} THEN Outcome(sfile, bfile, "noop")
        ELSE IF event # NoEvent /\ event \notin DOMAIN hooksOf(rd.doc)
             THEN Outcome(sfile, bfile, "notfound")
        ELSE IF wr.threw THEN Outcome(wr.file, bfile, "IoError")
        ELSE Outcome(wr.file, bfile, "ok")

disableNotifications(sfile, bfile, event, ioFails) ==
    LET rd == readSettings(sfile)
        configuredEvents == configuredEventsOf(rd.doc)
        bk == backupCurrentConfig(sfile, bfile)
        removed == IF event # NoEvent
                   THEN Put(rd.doc, "hooks", Delete(rd.doc["hooks"], event))
                   ELSE Put(rd.doc, "hooks",
                            Restrict(rd.doc["hooks"], DOMAIN rd.doc["hooks"] \ configuredEvents))
        wr == writeSettings(sfile, cleanupEmptyHooks(removed), ioFails)
    IN  IF rd.threw THEN Outcome(sfile, bfile, "ParseError")
        ELSE IF configuredEvents = {} THEN Outcome(sfile, bfile, "noop")
        ELSE IF event # NoEvent /\ event \notin DOMAIN hooksOf(rd.doc)
             THEN Outcome(sfile, bk.backup, "notfound")
        ELSE IF wr.threw THEN Outcome(wr.file, bk.backup, "IoError")
        ELSE Outcome(wr.file, bk.backup, "ok")

removeNotification(sfile, bfile, event, ioFails) ==
    LET rd == readSettings(sfile)
        removed == Put(rd.doc, "hooks", Delete(rd.doc["hooks"], event))
        wr == writeSettings(sfile, cleanupEmptyHooks(removed), ioFails)
    IN  IF rd.threw THEN Outcome(sfile, bfile, "ParseError")
        ELSE IF event \notin DOMAIN hooksOf(rd.doc) THEN Outcome(sfile, bfile, "notfound")
        ELSE IF wr.threw THEN Outcome(wr.file, unlinkBackup(bfile), "IoError")
        ELSE Outcome(wr.file, unlinkBackup(bfile), "ok")

\* the -e option of `ccnudge remove` when it is not given
DefaultRemoveEvent == "Stop"

\* the `remove` command: a confirmation prompt, then removeNotification
removeCommand(sfile, bfile, optEvent, confirm, ioFails) ==
    IF confirm
    THEN removeNotification(sfile, bfile,
                            IF optEvent = NoEvent THEN DefaultRemoveEvent ELSE optEvent,
                            ioFails)
    ELSE Outcome(sfile, bfile, "cancelled")

\* String.prototype.includes
includes(s, sub) ==
    \E i \in 1..Len(s) :
        i + Len(sub) <= Len(s) + 1 /\ SubSeq(s, i, i + Len(sub) - 1) = sub

\* the commands getStatus takes for a sound player and for a desktop
\* notification
SoundPlayerMarkers == { "afplay", "paplay", "Media.SoundPlayer" }
DesktopNotifyMarkers == { "osascript", "notify-send", "New-BurntToastNotification" }

\* the alternatives of the pattern /\/[^\s]+\.(aiff|wav|mp3|oga)/
SoundExtensions == { ".aiff", ".wav", ".mp3", ".oga" }

\* what \s matches among the characters of a command
isSpace(c) == c \in { " ", "\t", "\n" }

NoMatch == "<no match>"

\* command.match(/\/[^\s]+\.(aiff|wav|mp3|oga)/): the text matched, which
\* runs from the leftmost "/" that starts a match to the last extension in the
\* run of non-space characters after it, or NoMatch
matchSoundPath(command) ==
    LET n == Len(command)
        \* <<k, j>>: one of the extensions spans positions k..j
        spans == { <<p[1] + 1 - Len(p[2]), p[1]>> :
                     p \in { q \in (1..n) \X SoundExtensions :
                               /\ q[1] >= Len(q[2])
                               /\ SubSeq(command, q[1] + 1 - Len(q[2]), q[1]) = q[2] } }
        endsFrom(i) == { sp[2] : sp \in { t \in spans :
                                           /\ t[1] >= i + 2
                                           /\ \A m \in (i + 1)..(t[1] - 1) :
                                                 ~isSpace(SubSeq(command, m, m)) } }
        starts == { i \in 1..n : SubSeq(command, i, i) = "/" /\ endsFrom(i) # {} }
    IN  IF starts = {} THEN NoMatch
        ELSE LET i == CHOOSE a \in starts : \A b \in starts : a <= b
                 j == CHOOSE a \in endsFrom(i) : \A b \in endsFrom(i) : a >= b
             IN  SubSeq(command, i, j)

\* what getStatus prints for one configured event: the sound (the path
\* matched in the first sound player command, that command itself when no
\* path matches, NoSound when there is no such command) and whether a desktop
\* notification command is among the hooks
eventReport(groups) ==
    LET hooks == IF Len(groups) > 0 /\ "hooks" \in DOMAIN groups[1]
                 THEN groups[1].hooks ELSE << >>
        isSoundHook(h) == \E m \in SoundPlayerMarkers : includes(h.command, m)
        found == { i \in 1..Len(hooks) : isSoundHook(hooks[i]) }
        soundHook == hooks[CHOOSE i \in found : \A k \in found : i <= k]
    IN  [ sound |-> IF found = {} THEN NoSound
                    ELSE IF matchSoundPath(soundHook.command) # NoMatch
                         THEN matchSoundPath(soundHook.command)
                         ELSE soundHook.command,
          desktopNotify |-> \E i \in 1..Len(hooks) :
                               \E m \in DesktopNotifyMarkers : includes(hooks[i].command, m) ]

\* the hook values a setup of the model can write, and one written by hand
KnownHookValues ==
    { hookGroups(buildHooks(resolveSound(a, RoundTripFs), n)) :
        a \in SoundArgs \cup RoundTripSounds, n \in BOOLEAN }
    \cup { HandAuthored }

\* eventReport over KnownHookValues, computed once
knownReports == [g \in KnownHookValues |-> eventReport(g)]

\* eventReport(groups), looked up in knownReports where it is there
reportOf(groups) ==
    IF groups \in KnownHookValues THEN knownReports[groups] ELSE eventReport(groups)

\* the loop of the setup command from its i-th ticked event on:
\* setupNotification for each event in turn; an error ends the command
RECURSIVE setupEach(_, _, _, _, _)
setupEach(sfile, bfile, selectedEvents, answers, i) ==
    IF i > Len(selectedEvents) THEN Outcome(sfile, bfile, "ok")
    ELSE LET a == answers[i]
             out == setupNotification(sfile, bfile, selectedEvents[i], a.soundPath,
                                      a.notify, a.existing, a.ioFails)
         IN  IF out.result # "ok" THEN out
             ELSE setupEach(out.settings, out.backup, selectedEvents, answers, i + 1)

\* the `setup` command: the events ticked, in the order of the checkbox, and
\* the answers given for each
setupCommand(sfile, bfile, selectedEvents, answers) ==
    setupEach(sfile, bfile, selectedEvents, answers, 1)

\* getStatus as it would be if it refreshed the backup while it reads
getStatus_RefreshesBackup(sfile, bfile) ==
    LET rd == readSettings(sfile)
        bk == getBackupConfig(bfile)
        configuredEvents == configuredEventsOf(rd.doc)
        status == IF configuredEvents # {} THEN "ENABLED"
                  ELSE IF ~bk.isNull THEN "DISABLED"
                  ELSE "NOT CONFIGURED"
    IN  IF rd.threw
        THEN [ threw |-> TRUE, status |-> "", events |-> {}, report |-> EmptyObject,
               settings |-> sfile, backup |-> bfile ]
        ELSE [ threw |-> FALSE, status |-> status,
               events |-> IF status = "ENABLED" THEN configuredEvents
                          ELSE IF status = "DISABLED" THEN DOMAIN bk.doc ELSE {},
               report |-> IF status = "ENABLED"
                          THEN [e \in configuredEvents |-> reportOf(rd.doc["hooks"][e])]
                          ELSE EmptyObject,
               settings |-> sfile, backup |-> backupCurrentConfig(sfile, bfile).backup ]

\* getStatus: what it prints, as [threw, status, events, report], and the
\* files as it leaves them: the configured events and what is printed for
\* each when ENABLED, the keys of the backup when DISABLED
getStatus(sfile, bfile) ==
    LET rd == readSettings(sfile)
        bk == getBackupConfig(bfile)
        configuredEvents == configuredEventsOf(rd.doc)
        status == IF configuredEvents # {} THEN "ENABLED"
                  ELSE IF ~bk.isNull THEN "DISABLED"
                  ELSE "NOT CONFIGURED"
    IN  IF rd.threw
        THEN [ threw |-> TRUE, status |-> "", events |-> {}, report |-> EmptyObject,
               settings |-> sfile, backup |-> bfile ]
        ELSE [ threw |-> FALSE, status |-> status,
               events |-> IF status = "ENABLED" THEN configuredEvents
                          ELSE IF status = "DISABLED" THEN DOMAIN bk.doc ELSE {},
               report |-> IF status = "ENABLED"
                          THEN [e \in configuredEvents |-> reportOf(rd.doc["hooks"][e])]
                          ELSE EmptyObject,
               settings |-> sfile, backup |-> bfile ]

\* cleanupSettings of the uninstall script: "nosettings" is its early return
\* where the settings file does not exist; an error thrown inside it is
\* caught and printed, and what it had not yet done stays undone
cleanupSettings(sfile, bfile, ioFails) ==
    LET doc == sfile.doc
        removedCount == Cardinality(DOMAIN hooksOf(doc) \cap eventNames)
        cleaned == cleanupEmptyHooks(
                       Put(doc, "hooks", Restrict(doc["hooks"], DOMAIN doc["hooks"] \ eventNames)))
        wr == writeSettings(sfile, cleaned, ioFails)
    IN  IF sfile.st = "absent" THEN Outcome(sfile, bfile, "nosettings")
        ELSE IF sfile.st = "invalid" THEN Outcome(sfile, bfile, "ParseError")
        ELSE IF hasHooks(doc) /\ removedCount > 0
             THEN IF wr.threw THEN Outcome(wr.file, bfile, "IoError")
                  ELSE Outcome(wr.file, unlinkBackup(bfile), "ok")
        ELSE Outcome(sfile, unlinkBackup(bfile), "ok")

\* the uninstall script: cleanupSettings on a global uninstall only
uninstallScript(sfile, bfile, isGlobalUninstall, ioFails) ==
    IF isGlobalUninstall THEN cleanupSettings(sfile, bfile, ioFails)
    ELSE Outcome(sfile, bfile, "skipped")

----------------------------------------------------------------------------
(* The state machine *)

\* the managed hooks in a settings file
managedHooks(sfile) == Restrict(hooksOf(readSettings(sfile).doc), eventNames)

\* the hooks of the events outside the managed set
unmanagedHooks(sfile) ==
    LET h == hooksOf(readSettings(sfile).doc) IN Restrict(h, DOMAIN h \ eventNames)

\* the top-level keys other than hooks
otherKeys(sfile) ==
    LET d == readSettings(sfile).doc IN Restrict(d, DOMAIN d \ {"hooks"})

\* the settings documents found when the tool runs: another key, and no
\* hooks or hooks over any of the events, a managed event holding what an
\* earlier setup wrote and an unmanaged one what the user wrote
InitDocs ==
    { ("theme" :> "dark") } \cup
    { ("theme" :> "dark") @@
      ("hooks" :> [e \in S |-> IF e \in eventNames THEN EarlierSetup ELSE HandAuthored]) :
        S \in SUBSET EventArgs }

InitSettings == { AbsentFile, InvalidFile } \cup { OkFile(d) : d \in InitDocs }

\* the backup files: none, one that does not parse, or a JSON object over
\* managed events (the empty object included)
InitBackups ==
    { AbsentFile, InvalidFile } \cup
    { OkFile([e \in S |-> EarlierSetup]) : S \in SUBSET ModelledEvents }

\* the operations that write a file
MutatingOps == { "setup", "enable", "disable", "remove" }

\* an invocation that has not begun
Idle ==
    [ pc |-> "idle", op |-> "", event |-> NoEvent, notify |-> FALSE,
      doc |-> EmptyObject, bdoc |-> EmptyObject, snapshot |-> EmptyObject,
      seen |-> AbsentFile, hasRead |-> FALSE, behind |-> FALSE, wrote |-> FALSE,
      replaced |-> AbsentFile ]

InitFiles ==
    /\ settings \in InitSettings
    /\ backup \in InitBackups
    /\ proc = [p \in Procs |-> Idle]
    /\ last = [ op |-> "init", event |-> NoEvent, result |-> "ok",
                pre |-> [settings |-> settings, backup |-> backup] ]

Init == InitFiles /\ anchor = EmptyObject

\* the record of a call of op with its event argument that ended in result
Called(op, event, result) ==
    [ op |-> op, event |-> event, result |-> result,
      pre |-> [settings |-> settings, backup |-> backup] ]

\* the inputs of Setup beside the event
SetupInputs ==
    { [soundPath |-> s, notify |-> n, existing |-> x, ioFails |-> f] :
        s \in SoundArgs, n \in BOOLEAN, x \in FsScenarios, f \in IoCases }

\* the inputs tried: either notify flag where the sound resolves and the
\* write succeeds; where the sound is not found or the write fails the hooks
\* built are never written, and one flag and one cause of failure is tried
SetupCases ==
    { c \in SetupInputs :
        (resolveSound(c.soundPath, c.existing) = NotFound \/ c.ioFails)
            => /\ c.notify
               /\ ~(resolveSound(c.soundPath, c.existing) = NotFound /\ c.ioFails) }

\* setupNotification(event, ..) as the setup command calls it; last.input is
\* what it was given beside the event
Setup ==
    \E event \in SetupEvents, c \in SetupCases :
        LET out == setupNotification(settings, backup, event, c.soundPath, c.notify,
                                     c.existing, c.ioFails)
        IN  /\ settings' = out.settings
            /\ backup' = out.backup
            /\ last' = Called("setup", event, out.result) @@ [input |-> c]
            /\ UNCHANGED <<anchor, proc>>

Enable ==
    \E event \in EventArgs \cup {NoEvent}, ioFails \in IoCases :
        LET out == enableNotifications(settings, backup, event, ioFails)
        IN  /\ settings' = out.settings
            /\ backup' = out.backup
            /\ last' = Called("enable", event, out.result)
            /\ UNCHANGED <<anchor, proc>>

Disable ==
    \E event \in EventArgs \cup {NoEvent}, ioFails \in IoCases :
        LET out == disableNotifications(settings, backup, event, ioFails)
        IN  /\ settings' = out.settings
            /\ backup' = out.backup
            /\ last' = Called("disable", event, out.result)
            /\ UNCHANGED <<anchor, proc>>

\* the answer to the prompt of `ccnudge remove` and the environment: a
\* cancelled command writes nothing, so no failing write goes with it
RemoveCases ==
    { c \in [confirm : BOOLEAN, ioFails : IoCases] : c.ioFails => c.confirm }

\* `ccnudge remove [-e event]`; last.event is the event removeNotification got
Remove ==
    \E optEvent \in EventArgs \cup {NoEvent}, c \in RemoveCases :
        LET out == removeCommand(settings, backup, optEvent, c.confirm, c.ioFails)
        IN  /\ settings' = out.settings
            /\ backup' = out.backup
            /\ last' = Called("remove",
                              IF optEvent = NoEvent THEN DefaultRemoveEvent ELSE optEvent,
                              out.result)
            /\ UNCHANGED <<anchor, proc>>

\* what a getStatus call that ended as st printed
printed(st) == [status |-> st.status, events |-> st.events, report |-> st.report]

\* how a getStatus call that ended as st ended
statusResult(st) == IF st.threw THEN "ParseError" ELSE "ok"

\* `ccnudge status`; last.report is what getStatus printed
Status ==
    LET st == getStatus(settings, backup)
    IN  /\ settings' = st.settings
        /\ backup' = st.backup
        /\ last' = Called("status", NoEvent, statusResult(st)) @@ [report |-> printed(st)]
        /\ UNCHANGED <<anchor, proc>>

\* whether the uninstall is a global one and the environment: a script that
\* skips the cleanup writes nothing, so no failing write goes with it
UninstallCases ==
    { c \in [isGlobalUninstall : BOOLEAN, ioFails : IoCases] :
        c.ioFails => c.isGlobalUninstall }

\* `npm uninstall ccnudge`: the package's uninstall script runs
Uninstall ==
    \E c \in UninstallCases :
        LET out == uninstallScript(settings, backup, c.isGlobalUninstall, c.ioFails)
        IN  /\ settings' = out.settings
            /\ backup' = out.backup
            /\ last' = Called("uninstall", NoEvent, out.result)
            /\ UNCHANGED <<anchor, proc>>

Next == Setup \/ Enable \/ Disable \/ Remove \/ Status \/ Uninstall

Spec == Init /\ [][Next]_vars

\* a run of enable/disable calls only, from any initial files, with anchor
\* holding the managed hooks the run started from
InitToggle == InitFiles /\ anchor = managedHooks(settings)

NextToggle == Enable \/ Disable

SpecToggle == InitToggle /\ [][NextToggle]_vars

\* the inputs of a Setup whose sound resolves and whose write succeeds: the
\* default sound with and without the desktop notification, the other sounds
\* without it
RoundTripCases ==
    { c \in [soundPath : RoundTripSounds, notify : BOOLEAN,
             existing : {RoundTripFs}, ioFails : {FALSE}] :
        c.notify => c.soundPath = NoSound }

\* setupNotification(event, ..) with a sound that resolves
SetupResolvable ==
    \E event \in SetupEvents, c \in RoundTripCases :
        LET out == setupNotification(settings, backup, event, c.soundPath, c.notify,
                                     c.existing, c.ioFails)
        IN  /\ settings' = out.settings
            /\ backup' = out.backup
            /\ last' = Called("setup", event, out.result) @@ [input |-> c]
            /\ UNCHANGED <<anchor, proc>>

\* setups, each with a sound that resolves, and looks at the status
NextRoundTrip == SetupResolvable \/ Status

SpecRoundTrip == Init /\ [][NextRoundTrip]_vars

\* what the checkbox of the setup command can return: one or more of the
\* events, in the order of AVAILABLE_EVENTS
Selections ==
    { SelectSeq(SubSeq(AVAILABLE_EVENTS, 1, NumEvents), LAMBDA e : e \in S) :
        S \in (SUBSET SetupEvents) \ {{}} }

\* the answers for one ticked event: the default sound, with or without the
\* desktop notification, and the environment
AnswerCases == { c \in SetupCases : c.soundPath = NoSound }

\* `ccnudge setup`; last.selected is the events ticked
SetupCommand ==
    \E selectedEvents \in Selections :
        \E answers \in [1..Len(selectedEvents) -> AnswerCases] :
            LET out == setupCommand(settings, backup, selectedEvents, answers)
            IN  /\ settings' = out.settings
                /\ backup' = out.backup
                /\ last' = Called("setupCommand", NoEvent, out.result)
                              @@ [selected |-> selectedEvents]
                /\ UNCHANGED <<anchor, proc>>

\* the setup, start and stop commands
NextCommands == SetupCommand \/ Enable \/ Disable

SpecCommands == Init /\ [][NextCommands]_vars

\* the operations of the ConfigManager that change a file
NextCore == Setup \/ Enable \/ Disable \/ Remove

\* any settings file, no backup file yet
InitNoBackup == InitFiles /\ backup = AbsentFile /\ anchor = EmptyObject

SpecNoBackup == InitNoBackup /\ [][NextCore]_vars

\* a fresh start: no settings file or an empty settings document, no backup
InitFresh ==
    /\ settings \in { AbsentFile, OkFile(EmptyObject) }
    /\ backup = AbsentFile
    /\ proc = [p \in Procs |-> Idle]
    /\ last = [ op |-> "init", event |-> NoEvent, result |-> "ok",
                pre |-> [settings |-> settings, backup |-> backup] ]
    /\ anchor = EmptyObject

SpecFresh == InitFresh /\ [][NextCore]_vars

----------------------------------------------------------------------------
(* Two invocations whose file accesses interleave.  An invocation runs one  *)
(* operation, one file access a step: pc names the access it is about to   *)
(* make.  seen is the settings file as the invocation read it for its       *)
(* write; behind records that the file was no longer as seen when the       *)
(* invocation made a later file access other than its write; replaced is    *)
(* the settings file as it was when the invocation's write replaced it.     *)

\* an invocation after one more file access other than its settings write
noteAccess(q) ==
    [q EXCEPT !.behind = q.behind \/ (q.hasRead /\ settings # q.seen)]

\* where an operation goes on after backupCurrentConfig
afterBackup(q) ==
    IF q.op = "setup" THEN "read"
    ELSE IF q.event # NoEvent /\ q.event \notin DOMAIN hooksOf(q.doc) THEN "done"
    ELSE "write"

\* the settings document an invocation writes, from the document it read
docToWrite(q) ==
    IF q.op = "setup"
    THEN Put(ensureHooks(q.doc), "hooks",
             Put(ensureHooks(q.doc)["hooks"], q.event,
                 hookGroups(buildHooks(getPlatformConfig.defaultSound, q.notify))))
    ELSE IF q.op = "enable"
    THEN IF q.event # NoEvent
         THEN Put(ensureHooks(q.doc), "hooks",
                  Put(ensureHooks(q.doc)["hooks"], q.event, q.bdoc[q.event]))
         ELSE Put(ensureHooks(q.doc), "hooks",
                  ObjectAssign(ensureHooks(q.doc)["hooks"], q.bdoc))
    ELSE IF q.op = "disable" /\ q.event = NoEvent
    THEN cleanupEmptyHooks(
             Put(q.doc, "hooks",
                 Restrict(q.doc["hooks"], DOMAIN q.doc["hooks"] \ configuredEventsOf(q.doc))))
    ELSE cleanupEmptyHooks(Put(q.doc, "hooks", Delete(q.doc["hooks"], q.event)))

\* an invocation begins: a command is started
Begin(p) ==
    /\ proc[p].pc = "idle"
    /\ \E op \in MutatingOps, event \in EventArgs \cup {NoEvent}, notify \in BOOLEAN :
          /\ op = "setup" => event \in SetupEvents
          /\ op = "remove" => event # NoEvent
          /\ op # "setup" => ~notify
          /\ proc' = [proc EXCEPT ![p] =
                         [Idle EXCEPT !.op = op, !.event = event, !.notify = notify,
                                      !.pc = IF op = "setup" THEN "backupRead"
                                             ELSE IF op = "enable" THEN "readBackup"
                                             ELSE "read"]]
    /\ UNCHANGED <<settings, backup, last, anchor>>

\* getBackupConfig of enableNotifications
ReadBackup(p) ==
    /\ proc[p].pc = "readBackup"
    /\ LET bk == getBackupConfig(backup)
       IN  proc' = [proc EXCEPT ![p] =
                       [noteAccess(proc[p]) EXCEPT !.bdoc = bk.doc,
                                             !.pc = IF bk.isNull THEN "done" ELSE "read"]]
    /\ UNCHANGED <<settings, backup, last, anchor>>

\* the readSettings whose result the operation changes and writes
ReadSettings(p) ==
    /\ proc[p].pc = "read"
    /\ LET q == proc[p]
           rd == readSettings(settings)
           next == IF rd.threw THEN "done"
                   ELSE IF q.op = "setup" THEN "write"
                   ELSE IF q.op = "enable"
                   THEN IF q.event # NoEvent /\ q.event \notin DOMAIN q.bdoc
                        THEN "done" ELSE "write"
                   ELSE IF q.op = "disable"
                   THEN IF configuredEventsOf(rd.doc) = {} THEN "done" ELSE "backupRead"
                   ELSE IF q.event \notin DOMAIN hooksOf(rd.doc) THEN "done" ELSE "unlink"
       IN  proc' = [proc EXCEPT ![p] =
                       [q EXCEPT !.doc = rd.doc, !.seen = settings, !.hasRead = TRUE,
                                 !.behind = FALSE, !.pc = next]]
    /\ UNCHANGED <<settings, backup, last, anchor>>

\* the readSettings of backupCurrentConfig
BackupRead(p) ==
    /\ proc[p].pc = "backupRead"
    /\ LET q == noteAccess(proc[p])
           rd == readSettings(settings)
           ccnudgeHooks == Restrict(hooksOf(rd.doc), eventNames)
       IN  proc' = [proc EXCEPT ![p] =
                       [q EXCEPT !.snapshot = ccnudgeHooks,
                                 !.pc = IF rd.threw THEN "done"
                                        ELSE IF hasHooks(rd.doc) /\ DOMAIN ccnudgeHooks # {}
                                        THEN "backupWrite"
                                        ELSE afterBackup(q)]]
    /\ UNCHANGED <<settings, backup, last, anchor>>

\* the writeFile of backupCurrentConfig
BackupWrite(p) ==
    /\ proc[p].pc = "backupWrite"
    /\ backup' = OkFile(proc[p].snapshot)
    /\ proc' = [proc EXCEPT ![p] =
                   [noteAccess(proc[p]) EXCEPT !.pc = afterBackup(proc[p])]]
    /\ UNCHANGED <<settings, last, anchor>>

\* the unlink of removeNotification
UnlinkBackup(p) ==
    /\ proc[p].pc = "unlink"
    /\ backup' = unlinkBackup(backup)
    /\ proc' = [proc EXCEPT ![p] = [noteAccess(proc[p]) EXCEPT !.pc = "write"]]
    /\ UNCHANGED <<settings, last, anchor>>

\* writeSettings, the last file access of an operation
WriteSettings(p) ==
    /\ proc[p].pc = "write"
    /\ settings' = OkFile(docToWrite(proc[p]))
    /\ proc' = [proc EXCEPT ![p] =
                   [proc[p] EXCEPT !.wrote = TRUE, !.replaced = settings, !.pc = "done"]]
    /\ UNCHANGED <<backup, last, anchor>>

NextInterleaved ==
    \E p \in Procs :
        \/ Begin(p)
        \/ ReadBackup(p)
        \/ ReadSettings(p)
        \/ BackupRead(p)
        \/ BackupWrite(p)
        \/ UnlinkBackup(p)
        \/ WriteSettings(p)

SpecInterleaved == Init /\ [][NextInterleaved]_vars

----------------------------------------------------------------------------
(* What the last call was *)

DisableAllCall(l) == l.op = "disable" /\ l.event = NoEvent
EnableAllCall(l) == l.op = "enable" /\ l.event = NoEvent

\* the call returned instead of throwing
Returned(l) == l.op # "init" /\ l.result \notin Errors /\ l.result # "cancelled"

\* the value of hooks[e] in a settings file, for e present
hookAt(sfile, e) == hooksOf(readSettings(sfile).doc)[e]

hasHook(sfile, e) == e \in DOMAIN hooksOf(readSettings(sfile).doc)

inBackup(bfile, e) == bfile.st = "ok" /\ e \in DOMAIN bfile.doc

\* settings.hooks as the operations read it from a settings file
allHooks(sfile) == hooksOf(readSettings(sfile).doc)

\* the sound path a Setup recorded in l resolved its argument to
resolvedBy(l) == resolveSound(l.input.soundPath, l.input.existing)

----------------------------------------------------------------------------
(* C1 *)

\* C1: every top-level key other than hooks that the settings document held
\* before a call of Setup, Enable, Disable, Remove or Status is still in the
\* document after it, with the same value, whether the call succeeded, was a
\* no-op or failed.
C1_OtherKeysPreserved ==
    last.op # "init" =>
        \A K \in DOMAIN otherKeys(last.pre.settings) :
            /\ settings.st = "ok"
            /\ K \in DOMAIN settings.doc
            /\ settings.doc[K] = last.pre.settings.doc[K]

\* a Setup that rewrote a settings document holding another key
C1_Witness ==
    /\ last.op = "setup" /\ last.result = "ok"
    /\ "theme" \in DOMAIN otherKeys(last.pre.settings)
    /\ settings # last.pre.settings

----------------------------------------------------------------------------
(* C2 *)

\* C2: no call changes or deletes the hooks entry of an event outside the
\* managed set, whatever event argument the call was given.
C2_UnmanagedHooksUntouched ==
    last.op # "init" =>
        \A X \in DOMAIN unmanagedHooks(last.pre.settings) :
            hasHook(settings, X) /\ hookAt(settings, X) = hookAt(last.pre.settings, X)

----------------------------------------------------------------------------
(* C3 *)

\* C3: when Disable(all) succeeds on a document with at least one managed
\* event (any backup before it) and Enable(all) succeeds right after it, the
\* managed hooks are again what they were before the Disable, and the other
\* top-level keys and the unmanaged hooks are the same before, between and
\* after the two calls.
C3_DisableEnableRoundTrip ==
    [][ ( /\ DisableAllCall(last) /\ last.result = "ok"
          /\ DOMAIN managedHooks(last.pre.settings) # {}
          /\ EnableAllCall(last') /\ last'.result = "ok" )
        => /\ managedHooks(settings') = managedHooks(last.pre.settings)
           /\ otherKeys(settings) = otherKeys(last.pre.settings)
           /\ unmanagedHooks(settings) = unmanagedHooks(last.pre.settings)
           /\ otherKeys(settings') = otherKeys(last.pre.settings)
           /\ unmanagedHooks(settings') = unmanagedHooks(last.pre.settings)
      ]_vars

\* an Enable(all) that brought both managed events back, beside an unmanaged
\* event, into a document without managed hooks, from a backup holding hooks
\* that a Setup of this run built: a backup that Disable wrote when it
\* emptied the document
C3_Witness ==
    /\ EnableAllCall(last) /\ last.result = "ok"
    /\ DOMAIN managedHooks(last.pre.settings) = {}
    /\ DOMAIN unmanagedHooks(last.pre.settings) # {}
    /\ last.pre.backup.st = "ok"
    /\ DOMAIN managedHooks(settings) = ModelledEvents
    /\ managedHooks(settings) = last.pre.backup.doc
    /\ \E e \in ModelledEvents : hookAt(settings, e) # EarlierSetup

----------------------------------------------------------------------------
(* C4 *)

\* C4: Disable(all) run twice in a row leaves both files after the second
\* call as they were after the first, and so does Enable(all) run twice in a
\* row (no write being made to fail).
C4_ToggleAllIdempotent ==
    [][ ( /\ last.result # "IoError" /\ last'.result # "IoError"
          /\ \/ DisableAllCall(last) /\ DisableAllCall(last')
             \/ EnableAllCall(last) /\ EnableAllCall(last') )
        => settings' = settings /\ backup' = backup
      ]_vars

\* an Enable(all) that rewrote the settings from a backup holding hooks that
\* a Setup of this run built, and left both files as they already were: the
\* hooks held all of the backup, as an Enable(all) before it leaves them
C4_Witness ==
    /\ EnableAllCall(last) /\ last.result = "ok"
    /\ \E e \in DOMAIN last.pre.backup.doc : last.pre.backup.doc[e] # EarlierSetup
    /\ settings = last.pre.settings
    /\ backup = last.pre.backup

----------------------------------------------------------------------------
(* C5 *)

\* C5: after any sequence of Enable and Disable calls, every managed event
\* that was configured when the sequence began is in hooks with its original
\* value or in the backup with its original value.
C5_TogglingKeepsConfiguration ==
    \A e \in DOMAIN anchor :
        \/ hasHook(settings, e) /\ hookAt(settings, e) = anchor[e]
        \/ inBackup(backup, e) /\ backup.doc[e] = anchor[e]

----------------------------------------------------------------------------
(* C6 *)

\* C6: after Remove(e) returns for a managed event e that was enabled (in
\* hooks) or disabled (in the backup only), hooks[e] is absent, the backup
\* file is absent, and Status reports e neither as enabled nor as recoverable.
C6_RemoveFinality ==
    ( /\ last.op = "remove" /\ Returned(last)
      /\ last.event \in eventNames
      /\ hasHook(last.pre.settings, last.event) \/ inBackup(last.pre.backup, last.event) )
    => /\ ~hasHook(settings, last.event)
       /\ backup.st = "absent"
       /\ last.event \notin getStatus(settings, backup).events

----------------------------------------------------------------------------
(* C7 *)

\* C7: after a confirmed `ccnudge remove` with the event option left at its
\* default returns, from a state with at least one managed event configured,
\* no managed event is left in hooks and there is no backup file.
C7_RemoveCommandRemovesAll ==
    ( /\ last.op = "remove" /\ Returned(last)
      /\ last.event = DefaultRemoveEvent
      /\ DOMAIN managedHooks(last.pre.settings) # {} )
    => /\ DOMAIN managedHooks(settings) = {}
       /\ backup.st = "absent"

----------------------------------------------------------------------------
(* C8 *)

\* C8: a successful Setup(e, ..) on a document with at least one managed
\* event leaves as the backup exactly the managed hooks as they were before
\* the call, the old hooks[e] included; and an Enable(all) that succeeds
\* right after it sets every managed event that was configured before the
\* Setup, e among them when it was, back to its value from before the Setup.
C8_SetupBacksUpFirst ==
    [][ /\ ( /\ last'.op = "setup" /\ last'.result = "ok"
             /\ DOMAIN managedHooks(last'.pre.settings) # {} )
           => backup' = OkFile(managedHooks(last'.pre.settings))
        /\ ( /\ last.op = "setup" /\ last.result = "ok"
             /\ DOMAIN managedHooks(last.pre.settings) # {}
             /\ EnableAllCall(last') /\ last'.result = "ok" )
           => \A f \in DOMAIN managedHooks(last.pre.settings) :
                 hasHook(settings', f) /\ hookAt(settings', f) = hookAt(last.pre.settings, f)
      ]_vars

\* a Setup that overwrote the hooks of a configured managed event with a
\* different value while another backup existed
C8_Witness ==
    /\ last.op = "setup" /\ last.result = "ok"
    /\ last.event \in DOMAIN managedHooks(last.pre.settings)
    /\ hookAt(settings, last.event) # hookAt(last.pre.settings, last.event)
    /\ last.pre.backup.st = "ok"
    /\ last.pre.backup # backup

----------------------------------------------------------------------------
(* C9 *)

\* C9: a settings document written by Setup, Enable, Disable or Remove has no
\* hooks key or a hooks mapping with at least one event.
C9_NoEmptyHooksWritten ==
    (last.op \in MutatingOps /\ last.result = "ok") =>
        (hasHooks(settings.doc) => DOMAIN settings.doc["hooks"] # {})

----------------------------------------------------------------------------
(* C10 *)

\* C10: a call that reports its named event as not found (Enable(e) without
\* a backup entry for e, Disable(e) or Remove(e) without hooks[e]) leaves the
\* settings file and the backup file as they were.
C10_NotFoundMutatesNothing ==
    last.result = "notfound" =>
        settings = last.pre.settings /\ backup = last.pre.backup

----------------------------------------------------------------------------
(* C11 *)

\* C11: a Setup that fails because its sound argument resolves to no
\* existing file leaves the settings file and the backup file as they were
\* before the call, whatever managed events were configured and whatever
\* backup existed.
C11_SoundNotFoundMutatesNothing ==
    (last.op = "setup" /\ last.result = "SoundNotFoundError") =>
        settings = last.pre.settings /\ backup = last.pre.backup

----------------------------------------------------------------------------
(* C12 *)

\* C12: when the settings write of Setup, Enable, Disable or Remove fails,
\* the settings file and the backup file are as they were before the call.
C12_FailedWriteMutatesNothing ==
    (last.op \in MutatingOps /\ last.result = "IoError") =>
        settings = last.pre.settings /\ backup = last.pre.backup

----------------------------------------------------------------------------
(* C13 *)

\* C13: a Status call leaves the settings file and the backup file exactly
\* as they were, whether present, absent or unparsable.
C13_StatusReadOnly ==
    last.op = "status" =>
        settings = last.pre.settings /\ backup = last.pre.backup

\* a Status call that reported ENABLED where managed hooks were configured
\* and no backup file existed
C13_Witness ==
    /\ last.op = "status" /\ last.result = "ok"
    /\ last.report.status = "ENABLED"
    /\ DOMAIN managedHooks(last.pre.settings) # {}
    /\ last.pre.backup.st = "absent"

----------------------------------------------------------------------------
(* C14 *)

\* C14: a Status call right after a successful Setup(e, path, notify), for a
\* managed event e and a sound argument that resolves (none, an absolute path
\* of an existing file, a bare name), reports e as enabled, with the sound
\* printed equal to the resolved sound path and the desktop notification
\* flag printed equal to notify.
C14_SetupStatusRoundTrip ==
    [][ ( /\ last.op = "setup" /\ last.result = "ok"
          /\ last.event \in eventNames
          /\ last'.op = "status" )
        => /\ last'.result = "ok"
           /\ last'.report.status = "ENABLED"
           /\ last.event \in last'.report.events
           /\ last'.report.report[last.event].sound =
                  resolveSound(last.input.soundPath, last.input.existing)
           /\ last'.report.report[last.event].desktopNotify = last.input.notify
      ]_vars

----------------------------------------------------------------------------
(* C15 *)

\* C15: a Disable(e) that succeeds where two or more managed events are in
\* hooks, e among them, removes hooks[e] only, every other hooks entry being
\* as it was, and leaves as the backup the managed hooks as they were before
\* the call, those of e and of the others.
C15_PartialDisable ==
    ( /\ last.op = "disable" /\ last.result = "ok"
      /\ last.event \in DOMAIN managedHooks(last.pre.settings)
      /\ Cardinality(DOMAIN managedHooks(last.pre.settings)) >= 2 )
    => /\ settings.st = "ok"
       /\ hooksOf(settings.doc) = Delete(hooksOf(last.pre.settings.doc), last.event)
       /\ backup = OkFile(managedHooks(last.pre.settings))

\* a Disable(e) that left another managed event and an unmanaged event in
\* hooks, and replaced a backup that held something else
C15_Witness ==
    /\ last.op = "disable" /\ last.result = "ok"
    /\ last.event \in DOMAIN managedHooks(last.pre.settings)
    /\ DOMAIN managedHooks(settings) # {}
    /\ DOMAIN unmanagedHooks(settings) # {}
    /\ last.pre.backup.st = "ok"
    /\ last.pre.backup # backup
    /\ last.event \in DOMAIN backup.doc

----------------------------------------------------------------------------
(* C16 *)

\* C16: after the cleanup of a global uninstall has run without an error,
\* whether the settings file and the backup file were present or absent
\* before, no managed event is in hooks, the backup file is absent, and the
\* other top-level keys and the unmanaged hooks are as they were.
C16_UninstallCleansUp ==
    (last.op = "uninstall" /\ last.result \in {"ok", "nosettings"})
    => /\ DOMAIN managedHooks(settings) = {}
       /\ backup.st = "absent"
       /\ otherKeys(settings) = otherKeys(last.pre.settings)
       /\ unmanagedHooks(settings) = unmanagedHooks(last.pre.settings)

----------------------------------------------------------------------------
(* C17 *)

\* C17: a successful Setup(e, sound, notify) leaves hooks[e] a sequence of
\* exactly one hook group whose entries are the ones built for the resolved
\* sound and the flag, nothing of an earlier hooks[e] being kept, and leaves
\* the hooks entry of every other event, managed or not, as it was.
C17_SetupOverwritesEvent ==
    (last.op = "setup" /\ last.result = "ok")
    => /\ hasHook(settings, last.event)
       /\ Len(hookAt(settings, last.event)) = 1
       /\ hookAt(settings, last.event)[1] =
              [hooks |-> buildHooks(resolvedBy(last), last.input.notify)]
       /\ Delete(allHooks(settings), last.event) =
              Delete(allHooks(last.pre.settings), last.event)

\* a Setup that replaced a different configuration of its event while
\* another managed event and an unmanaged event were in hooks
C17_Witness ==
    /\ last.op = "setup" /\ last.result = "ok"
    /\ hasHook(last.pre.settings, last.event)
    /\ hookAt(last.pre.settings, last.event) # hookAt(settings, last.event)
    /\ DOMAIN managedHooks(settings) # {last.event}
    /\ DOMAIN unmanagedHooks(settings) # {}

----------------------------------------------------------------------------
(* C18 *)

\* C18: the entries a successful Setup installs for its event are the sound
\* player command at index 0, followed by the desktop notification command
\* at index 1 exactly when the flag is set: two entries with the flag, one
\* without, each of type "command".
C18_SetupEntries ==
    (last.op = "setup" /\ last.result = "ok")
    => LET entries == hookAt(settings, last.event)[1].hooks
       IN  /\ Len(entries) = IF last.input.notify THEN 2 ELSE 1
           /\ \A i \in 1..Len(entries) : entries[i].type = "command"
           /\ entries[1].command = buildSoundCommand(resolvedBy(last))
           /\ last.input.notify => entries[2].command = buildDesktopNotifyCommand

\* a Setup with the desktop notification flag that installed two entries
C18_Witness ==
    /\ last.op = "setup" /\ last.result = "ok"
    /\ last.input.notify
    /\ Len(hookAt(settings, last.event)[1].hooks) = 2

----------------------------------------------------------------------------
(* C19 *)

\* C19: a successful Enable with a backup B leaves the backup file as it
\* was; Enable(all) sets hooks[e] to B[e] for every event e of B, over
\* whatever hooks[e] was, and leaves hooks[f] as it was for every f not in B;
\* Enable(e), e in B, sets hooks[e] to B[e] and changes no other entry.
C19_EnableEffect ==
    (last.op = "enable" /\ last.result = "ok")
    => LET B == last.pre.backup.doc
           before == allHooks(last.pre.settings)
           after == allHooks(settings)
       IN  /\ last.pre.backup.st = "ok"
           /\ backup = last.pre.backup
           /\ last.event = NoEvent =>
                 /\ DOMAIN after = DOMAIN before \cup DOMAIN B
                 /\ \A e \in DOMAIN B : after[e] = B[e]
                 /\ \A f \in DOMAIN before \ DOMAIN B : after[f] = before[f]
           /\ last.event # NoEvent =>
                 /\ last.event \in DOMAIN B
                 /\ hasHook(settings, last.event)
                 /\ after[last.event] = B[last.event]
                 /\ Delete(after, last.event) = Delete(before, last.event)

\* an Enable(all) that replaced a different hooks entry of an event of the
\* backup and kept the hooks entry of an event the backup does not hold
C19_Witness ==
    /\ EnableAllCall(last) /\ last.result = "ok"
    /\ \E e \in DOMAIN last.pre.backup.doc :
          /\ hasHook(last.pre.settings, e)
          /\ hookAt(last.pre.settings, e) # last.pre.backup.doc[e]
          /\ hookAt(settings, e) = last.pre.backup.doc[e]
    /\ \E f \in DOMAIN allHooks(last.pre.settings) : f \notin DOMAIN last.pre.backup.doc

----------------------------------------------------------------------------
(* C20 *)

\* C20: with the backup file absent or unparsable, Enable(e) and Enable(all)
\* report that there is no previous configuration and leave both files as
\* they were; and Status on an unparsable backup ends and prints as it does
\* on the same settings with the backup absent.
C20_UnparsableBackupIsAbsent ==
    /\ (last.op = "enable" /\ last.pre.backup.st \in {"absent", "invalid"})
       => /\ last.result = "noop"
          /\ settings = last.pre.settings
          /\ backup = last.pre.backup
    /\ (last.op = "status" /\ last.pre.backup.st = "invalid")
       => LET st == getStatus(last.pre.settings, AbsentFile)
          IN  /\ last.result = statusResult(st)
              /\ last.report = printed(st)

\* an Enable that found a backup file it could not parse, where no managed
\* event was configured, and a Status of the same files
C20_Witness ==
    /\ last.pre.backup.st = "invalid"
    /\ DOMAIN managedHooks(last.pre.settings) = {}
    /\ \/ last.op = "enable" /\ last.result = "noop"
       \/ last.op = "status" /\ last.result = "ok" /\ last.report.status = "NOT CONFIGURED"

----------------------------------------------------------------------------
(* C21 *)

\* C21: after a Disable(all) that succeeds where at least one managed event
\* is in hooks, no managed event is in hooks and the backup is exactly the
\* managed hooks as they were before the call: nothing of an earlier backup
\* is left in it.
C21_DisableAllEffect ==
    ( /\ DisableAllCall(last) /\ last.result = "ok"
      /\ DOMAIN managedHooks(last.pre.settings) # {} )
    => /\ DOMAIN managedHooks(settings) = {}
       /\ backup = OkFile(managedHooks(last.pre.settings))

\* a Disable(all) that replaced a backup holding an event that was not in
\* hooks
C21_Witness ==
    /\ DisableAllCall(last) /\ last.result = "ok"
    /\ last.pre.backup.st = "ok"
    /\ \E e \in DOMAIN last.pre.backup.doc : ~hasHook(last.pre.settings, e)
    /\ backup.st = "ok"
    /\ DOMAIN backup.doc # {}

----------------------------------------------------------------------------
(* C22 *)

\* C22: where the settings document has no managed event in hooks (no hooks,
\* empty hooks, unmanaged events only), a Disable with any argument reports
\* that nothing is configured and leaves the settings file and the backup
\* file as they were.
C22_DisableNothingConfigured ==
    ( /\ last.op = "disable"
      /\ last.pre.settings.st # "invalid"
      /\ DOMAIN managedHooks(last.pre.settings) = {} )
    => /\ last.result = "noop"
       /\ settings = last.pre.settings
       /\ backup = last.pre.backup

\* a Disable naming an unmanaged event that is in hooks, with no managed
\* event configured and a backup file in place
C22_Witness ==
    /\ last.op = "disable" /\ last.result = "noop"
    /\ last.event \in DOMAIN unmanagedHooks(last.pre.settings)
    /\ last.pre.backup.st = "ok"
    /\ DOMAIN last.pre.backup.doc # {}

----------------------------------------------------------------------------
(* C23 *)

\* a backup file that is not there, or a non-empty mapping over managed events
wellFormedBackup(bfile) ==
    \/ bfile.st = "absent"
    \/ /\ bfile.st = "ok"
       /\ DOMAIN bfile.doc # {}
       /\ DOMAIN bfile.doc \subseteq eventNames

\* C23: starting with no backup file, in any sequence of Setup, Enable,
\* Disable and Remove calls the backup file is absent or a non-empty mapping
\* over managed events, and whenever a call changes it the call removes it
\* or leaves in it, for each of its events, the hooks[e] the settings
\* document held when the call took its snapshot.
C23_BackupWellFormed ==
    [][ /\ wellFormedBackup(backup')
        /\ backup' # backup =>
              \/ backup'.st = "absent"
              \/ backup' = OkFile(managedHooks(settings))
      ]_vars

\* a Disable that wrote the backup from a settings document that held an
\* unmanaged event beside the managed ones, replacing an earlier backup
C23_Witness ==
    /\ last.op = "disable"
    /\ backup.st = "ok"
    /\ last.pre.backup.st = "ok"
    /\ backup # last.pre.backup
    /\ DOMAIN unmanagedHooks(last.pre.settings) # {}

----------------------------------------------------------------------------
(* C25 *)

\* the state of a managed event in the lifecycle
eventState(sfile, bfile, e) ==
    IF hasHook(sfile, e) THEN "Enabled"
    ELSE IF inBackup(bfile, e) THEN "Disabled"
    ELSE "Unconfigured"

\* C25: starting from empty settings and no backup, for every managed event
\* e: a successful Setup(e) takes e from Unconfigured to Enabled; a
\* successful Disable(e) or Disable(all) takes an Enabled e to Disabled with
\* backup[e] the hooks[e] it removed; a successful Enable(e) or Enable(all)
\* takes a Disabled e to Enabled with hooks[e] equal to backup[e].
C25_Lifecycle ==
    \A e \in eventNames :
        LET before == eventState(last.pre.settings, last.pre.backup, e)
            after == eventState(settings, backup, e)
        IN  /\ ( /\ last.op = "setup" /\ last.result = "ok" /\ last.event = e
                 /\ before = "Unconfigured" )
               => after = "Enabled"
            /\ ( /\ last.op = "disable" /\ last.result = "ok"
                 /\ last.event \in {e, NoEvent}
                 /\ before = "Enabled" )
               => /\ after = "Disabled"
                  /\ backup.doc[e] = hookAt(last.pre.settings, e)
            /\ ( /\ last.op = "enable" /\ last.result = "ok"
                 /\ last.event \in {e, NoEvent}
                 /\ before = "Disabled" )
               => /\ after = "Enabled"
                  /\ hookAt(settings, e) = last.pre.backup.doc[e]

\* an Enable(e) that took a Disabled e back to Enabled while another managed
\* event stayed Enabled
C25_Witness ==
    /\ last.op = "enable" /\ last.result = "ok"
    /\ last.event \in eventNames
    /\ eventState(last.pre.settings, last.pre.backup, last.event) = "Disabled"
    /\ eventState(settings, backup, last.event) = "Enabled"
    /\ \E f \in eventNames \ {last.event} : hasHook(last.pre.settings, f)

----------------------------------------------------------------------------
(* C24 *)

\* C24: Status reports ENABLED exactly when a managed event is in hooks;
\* otherwise DISABLED exactly when a backup exists and is not empty;
\* otherwise (the backup absent, unparsable or empty) NOT CONFIGURED.
C24_StatusClassification ==
    (last.op = "status" /\ last.result = "ok")
    => last.report.status =
           IF DOMAIN managedHooks(last.pre.settings) # {} THEN "ENABLED"
           ELSE IF last.pre.backup.st = "ok" /\ DOMAIN last.pre.backup.doc # {}
                THEN "DISABLED"
                ELSE "NOT CONFIGURED"

----------------------------------------------------------------------------
(* C26 *)

\* C26: where the settings file is there but is not valid JSON, a Setup,
\* Enable, Disable or Remove ends with an error and leaves the settings file
\* and the backup file as they were.
C26_InvalidSettingsFails ==
    ( /\ last.op \in MutatingOps /\ last.result # "cancelled"
      /\ last.pre.settings.st = "invalid" )
    => /\ last.result \in Errors
       /\ settings = last.pre.settings
       /\ backup = last.pre.backup

\* C26 as amended: where the settings file is there but is not valid JSON, a
\* Setup, Disable or Remove ends with an error; so does an Enable that finds
\* a backup it can parse, while an Enable that finds none reports that there
\* is no previous configuration; and each of them leaves the settings file
\* and the backup file as they were.
C26_InvalidSettingsChangesNothing ==
    ( /\ last.op \in MutatingOps /\ last.result # "cancelled"
      /\ last.pre.settings.st = "invalid" )
    => /\ IF last.op = "enable" /\ last.pre.backup.st # "ok"
          THEN last.result = "noop"
          ELSE last.result = "ParseError"
       /\ settings = last.pre.settings
       /\ backup = last.pre.backup

\* a Setup that met a settings file it could not parse while a backup
\* existed
C26_Witness ==
    /\ last.op = "setup" /\ last.result = "ParseError"
    /\ last.pre.settings.st = "invalid"
    /\ last.pre.backup.st = "ok"
    /\ DOMAIN last.pre.backup.doc # {}

----------------------------------------------------------------------------
(* C27 *)

\* C27: after a `ccnudge setup` that configured its one or more ticked
\* events, run where managed events were configured, the backup is the
\* managed hooks as they were before the command began.
C27_SetupCommandBacksUp ==
    ( /\ last.op = "setupCommand" /\ last.result = "ok"
      /\ DOMAIN managedHooks(last.pre.settings) # {} )
    => backup = OkFile(managedHooks(last.pre.settings))

----------------------------------------------------------------------------
(* C28 *)

\* what is in the settings file after the operation of invocation q when
\* that operation works from the settings file sfile
freshOutcome(q, sfile) ==
    LET fresh == readSettings(sfile).doc
        absentEvent == q.event # NoEvent /\ q.event \notin DOMAIN hooksOf(fresh)
        untouched == \/ q.op = "disable" /\ (configuredEventsOf(fresh) = {} \/ absentEvent)
                     \/ q.op = "remove" /\ absentEvent
    IN  IF untouched THEN fresh ELSE docToWrite([q EXCEPT !.doc = fresh])

\* C28: where the file accesses of two invocations interleave, the settings
\* document an operation writes comes from a read of the settings file made
\* after every other file access of that operation, so that a change of the
\* settings file committed by the other invocation before one of those
\* accesses is in the document read and is not overwritten.
C28_WritesFromFreshRead ==
    \A p \in Procs :
        proc[p].wrote /\ proc[p].behind
            => docToWrite(proc[p]) = freshOutcome(proc[p], proc[p].replaced)

============================================================================
